---------------------------- MODULE Spec2Model ----------------------------
(***************************************************************************)
(* Model of the adaptive study-scheduling engine, src/core/study/engine.ts. *)
(*                                                                         *)
(* Numbers.  The engine computes on JavaScript doubles.  Every quantity of  *)
(* the model is an integer or an exact fraction [num, den] (den > 0):       *)
(* minutes are integers, estimatedHours is carried as estimatedHours * 60   *)
(* (field estimatedMinutes), adjustment factors in tenths, focus ratings in *)
(* tenths.  Fractions are compared by cross-multiplication.  A division by  *)
(* zero yields NaN or Infinity as the double division does.  The hours      *)
(* logged for a task, the remaining estimate and the number of sessions a   *)
(* task needs are computed in doubles, bit by bit: their rounding decides   *)
(* whether a task is dropped and how many sessions it gets.                 *)
(***************************************************************************)
EXTENDS Integers, Sequences, FiniteSets, TLC

(***************************************************************************)
(* Bounds of the model.                                                     *)
(***************************************************************************)
MaxSlots == 2
MaxTasks == 2
MaxHistory == 3

(***************************************************************************)
(* Program constants.                                                       *)
(***************************************************************************)
DaysPerWeek == 7

VARIABLES
  \* a call of one pure function on enumerated arguments
  fn, args, ret,
  \* a planning call: the entry point, its arguments, the position in the code
  call, input, pc,
  \* the parameters of generateProposedWeeklyScheduleWithHistory
  params,
  \* its locals
  sortedTasks, weekBlocks, totalAvailableMinutes, maxUsableMinutes,
  usedMinutes, sessionId, sessions, taskConsecutiveCounts,
  ti, sessionsNeeded, sessionsScheduled, day, bi, blockCursor, consecutiveCount,
  \* the returned ScheduleProposal
  result,
  \* history variables: where each session was placed, how each task ended
  placed, taskLog

hvars == <<fn, args, ret>>
pvars == <<call, input, pc, params, sortedTasks, weekBlocks, totalAvailableMinutes,
           maxUsableMinutes, usedMinutes, sessionId, sessions, taskConsecutiveCounts,
           ti, sessionsNeeded, sessionsScheduled, day, bi, blockCursor,
           consecutiveCount, result, placed, taskLog>>
vars == <<hvars, pvars>>

(***************************************************************************)
(* Generic helpers.                                                         *)
(***************************************************************************)
Max(a, b) == IF a >= b THEN a ELSE b
Min(a, b) == IF a <= b THEN a ELSE b

RECURSIVE SeqsUpTo(_, _)
\* All sequences of length <= n of elements of S.
SeqsUpTo(S, n) ==
  IF n = 0 THEN {<<>>}
  ELSE LET shorter == SeqsUpTo(S, n - 1)
       IN shorter \cup
          {Append(s, x) : s \in {t \in shorter : Len(t) = n - 1},
                          x \in S}

(***************************************************************************)
(* TIME UTILITIES                                                           *)
(***************************************************************************)
getTimeOfDay(minutes) ==
  IF minutes >= 240 /\ minutes < 720 THEN "dawn"
  ELSE IF minutes >= 720 /\ minutes < 1020 THEN "morning"
  ELSE IF minutes >= 1020 /\ minutes < 1260 THEN "evening"
  ELSE "night"

RECURSIVE InsertSlot(_, _)
\* One step of the stable ascending sort by startMinutes: x goes behind every
\* element whose startMinutes is not greater.
InsertSlot(x, s) ==
  IF s = <<>> THEN <<x>>
  ELSE IF Head(s).startMinutes - x.startMinutes <= 0
       THEN <<Head(s)>> \o InsertSlot(x, Tail(s))
       ELSE <<x>> \o s

RECURSIVE SortSlots(_)
\* [...daySlots].sort((a, b) => a.startMinutes - b.startMinutes), stable.
SortSlots(slots) ==
  IF slots = <<>> THEN <<>>
  ELSE InsertSlot(slots[Len(slots)], SortSlots(SubSeq(slots, 1, Len(slots) - 1)))

\* Mutant: the gap is not measured against the minimum session length.
GapLongEnough_Always(duration, minSessionMinutes) == TRUE

\* The test that lets a gap before a slot become a block.
GapLongEnough(duration, minSessionMinutes) == duration >= minSessionMinutes

\* Mutant: the cursor jumps to the end of the slot, also backwards.
NextStart_SlotEnd(currentStart, slot) == slot.endMinutes

\* currentStart = Math.max(currentStart, slot.endMinutes)
NextStart(currentStart, slot) == Max(currentStart, slot.endMinutes)

RECURSIVE WalkSlots(_, _, _, _, _, _)
\* The for loop over sortedSlots: the running cursor and the blocks so far.
WalkSlots(sortedSlots, i, currentStart, blocks, dayOfWeek, minSessionMinutes) ==
  IF i > Len(sortedSlots)
  THEN [currentStart |-> currentStart, blocks |-> blocks]
  ELSE LET slot == sortedSlots[i]
           emit == /\ slot.startMinutes > currentStart
                   /\ GapLongEnough(slot.startMinutes - currentStart, minSessionMinutes)
           pushed == IF emit
                     THEN Append(blocks,
                            [dayOfWeek |-> dayOfWeek,
                             startMinutes |-> currentStart,
                             endMinutes |-> slot.startMinutes,
                             isPreferred |-> slot.type # "not_preferred"])
                     ELSE blocks
       IN WalkSlots(sortedSlots, i + 1, NextStart(currentStart, slot),
                    pushed, dayOfWeek, minSessionMinutes)

calculateAvailableBlocks(dayOfWeek, preferences, minSessionMinutes) ==
  LET daySlots == SelectSeq(preferences.unavailableSlots,
                            LAMBDA s : s.dayOfWeek = dayOfWeek)
      sortedSlots == SortSlots(daySlots)
      walked == WalkSlots(sortedSlots, 1, preferences.wakeTimeMinutes, <<>>,
                          dayOfWeek, minSessionMinutes)
      currentStart == walked.currentStart
      dayEnd == preferences.sleepTimeMinutes
  IN IF dayEnd > currentStart /\ (dayEnd - currentStart) >= minSessionMinutes
     THEN Append(walked.blocks,
            [dayOfWeek |-> dayOfWeek,
             startMinutes |-> currentStart,
             endMinutes |-> dayEnd,
             isPreferred |-> TRUE])
     ELSE walked.blocks

(***************************************************************************)
(* Exact fractions standing for the engine's doubles.                       *)
(***************************************************************************)
RECURSIVE GCD(_, _)
GCD(a, b) == IF b = 0 THEN a ELSE GCD(b, a % b)

\* n / d for n >= 0, d > 0, in lowest terms.
Frac(n, d) == LET g == GCD(n, d) IN [num |-> n \div g, den |-> d \div g]

FracLT(a, b) == a.num * b.den < b.num * a.den
FracLE(a, b) == a.num * b.den <= b.num * a.den
FracAdd(a, b) == Frac(a.num * b.den + b.num * a.den, a.den * b.den)
FracMul(a, b) == Frac(a.num * b.num, a.den * b.den)
FracMin(a, b) == IF FracLE(a, b) THEN a ELSE b
FracMax(a, b) == IF FracLE(b, a) THEN a ELSE b

\* The doubles that are no fraction, written with a zero denominator.
NaN == [num |-> 0, den |-> 0]
Infinity == [num |-> 1, den |-> 0]

\* n / d as the double division gives it, d possibly zero (n, d >= 0).
Divide(n, d) ==
  IF d.num = 0
  THEN IF n.num = 0 THEN NaN ELSE Infinity
  ELSE Frac(n.num * d.den, n.den * d.num)

(***************************************************************************)
(* IEEE-754 doubles, for the quantities whose rounding the engine's control *)
(* flow can see.  A positive double is [m, e]: m its 53 significand bits,   *)
(* least significant first, and the value is m x 2^e; zero has m = <<>>.    *)
(* Every operation computes the exact result and rounds it to nearest, ties *)
(* to even, as the hardware does.  (No subnormals, no overflow: the values  *)
(* are minutes and hours.)                                                  *)
(***************************************************************************)
\* The significand of a double has 53 bits.
SignificandBits == 53

Zeros(n) == [i \in 1..n |-> 0]

RECURSIVE BitsOfInt(_)
\* The bits of n >= 0, least significant first.
BitsOfInt(n) == IF n = 0 THEN <<>> ELSE <<n % 2>> \o BitsOfInt(n \div 2)

RECURSIVE IntOfBits(_)
IntOfBits(b) == IF b = <<>> THEN 0 ELSE Head(b) + 2 * IntOfBits(Tail(b))

\* The w low bits of n.
FixedBits(n, w) == [i \in 1..w |-> (n \div 2^(i - 1)) % 2]

\* b without its zero bits at the high end.
StripHigh(b) ==
  LET ones == {i \in 1..Len(b) : b[i] = 1}
  IN IF ones = {} THEN <<>>
     ELSE SubSeq(b, 1, CHOOSE i \in ones : \A j \in ones : j <= i)

\* The low chunk of a bit sequence, as a number, and the bits above it.
LowChunk(b) == IntOfBits(SubSeq(b, 1, Min(15, Len(b))))
AboveChunk(b) == SubSeq(b, 15 + 1, Len(b))

RECURSIVE BitsAdd(_, _, _)
\* a + b + carry, 15 bits at a time
BitsAdd(a, b, carry) ==
  IF a = <<>> /\ b = <<>> THEN BitsOfInt(carry)
  ELSE LET t == LowChunk(a) + LowChunk(b) + carry
       IN FixedBits(t, 15) \o BitsAdd(AboveChunk(a), AboveChunk(b), t \div 32768)

RECURSIVE BitsSub(_, _, _)
\* a - b - borrow, for a >= b + borrow
BitsSub(a, b, borrow) ==
  IF a = <<>> THEN <<>>
  ELSE LET t == LowChunk(a) - LowChunk(b) - borrow
       IN FixedBits(IF t < 0 THEN t + 32768 ELSE t, 15)
            \o BitsSub(AboveChunk(a), AboveChunk(b), IF t < 0 THEN 1 ELSE 0)

RECURSIVE BitsMul(_, _, _)
\* a x k + carry, for an integer 1 <= k < 2^15
BitsMul(a, k, carry) ==
  IF a = <<>> THEN BitsOfInt(carry)
  ELSE LET t == LowChunk(a) * k + carry
       IN FixedBits(t, 15) \o BitsMul(AboveChunk(a), k, t \div 32768)

RECURSIVE BitsDiv(_, _, _)
\* Long division of a by k (1 <= k < 2^15) from the high end, chunk by chunk:
\* quotient and remainder.
BitsDiv(a, k, rem) ==
  IF a = <<>> THEN [q |-> <<>>, r |-> rem]
  ELSE LET w == Min(15, Len(a))
           t == rem * 2^w + IntOfBits(SubSeq(a, Len(a) - w + 1, Len(a)))
           rest == BitsDiv(SubSeq(a, 1, Len(a) - w), k, t % k)
       IN [q |-> rest.q \o FixedBits(t \div k, w), r |-> rest.r]

\* a >= b for bit sequences of the same length.
BitsGE(a, b) ==
  LET differ == {i \in 1..Len(a) : a[i] # b[i]}
      top == CHOOSE i \in differ : \A j \in differ : j <= i
  IN differ = {} \/ a[top] > b[top]

DZero == [m |-> <<>>, e |-> 0]

\* The double nearest to n x 2^e (+ something below one unit of n if sticky),
\* ties to even.
DRound(n, e, sticky) ==
  LET b == StripHigh(n)
      len == Len(b)
  IN IF len = 0 THEN DZero
     ELSE IF len <= SignificandBits
     THEN [m |-> Zeros(SignificandBits - len) \o b, e |-> e - (SignificandBits - len)]
     ELSE LET drop == len - SignificandBits
              top == SubSeq(b, drop + 1, len)
              guard == b[drop]
              below == sticky \/ \E i \in 1..(drop - 1) : b[i] = 1
              up == guard = 1 /\ (below \/ top[1] = 1)
              rounded == IF up THEN StripHigh(BitsAdd(top, <<1>>, 0)) ELSE top
          IN IF Len(rounded) > SignificandBits
             THEN [m |-> SubSeq(rounded, 2, Len(rounded)), e |-> e + drop + 1]
             ELSE [m |-> rounded, e |-> e + drop]

\* The integer n >= 0 as a double.
DFromInt(n) == DRound(BitsOfInt(n), 0, FALSE)

\* The significand of x written against the exponent e <= x.e.
DAligned(x, e) == IF x.m = <<>> THEN <<>> ELSE Zeros(x.e - e) \o x.m

DAdd(x, y) ==
  IF x.m = <<>> THEN y
  ELSE IF y.m = <<>> THEN x
  ELSE LET e == Min(x.e, y.e)
       IN DRound(BitsAdd(DAligned(x, e), DAligned(y, e), 0), e, FALSE)

\* x >= y
DGE(x, y) ==
  IF y.m = <<>> THEN TRUE
  ELSE IF x.m = <<>> THEN FALSE
  ELSE LET e == Min(x.e, y.e)
           a == DAligned(x, e)
           b == DAligned(y, e)
           n == Max(Len(a), Len(b))
       IN BitsGE(a \o Zeros(n - Len(a)), b \o Zeros(n - Len(b)))

\* Math.max(0, x - y)
DSubOrZero(x, y) ==
  IF ~DGE(x, y) THEN DZero
  ELSE IF y.m = <<>> THEN x
  ELSE LET e == Min(x.e, y.e)
       IN DRound(BitsSub(DAligned(x, e), DAligned(y, e), 0), e, FALSE)

\* x * k for an integer k >= 1
DMulInt(x, k) == IF x.m = <<>> THEN DZero ELSE DRound(BitsMul(x.m, k, 0), x.e, FALSE)

\* x / k for an integer k >= 1: 64 more quotient bits than the significand has.
DDivInt(x, k) ==
  IF x.m = <<>> THEN DZero
  ELSE LET shifted == Zeros(64) \o x.m
           d == BitsDiv(shifted, k, 0)
       IN DRound(d.q, x.e - 64, d.r # 0)

\* Math.ceil(x) for 0 <= x < 2^31
DCeil(x) ==
  IF x.m = <<>> THEN 0
  ELSE IF x.e >= 0 THEN IntOfBits(Zeros(x.e) \o x.m)
  ELSE LET cut == Min(-x.e, SignificandBits)
           fraction == SubSeq(x.m, 1, cut)
           whole == SubSeq(x.m, cut + 1, SignificandBits)
       IN IntOfBits(whole) + (IF \E i \in 1..cut : fraction[i] = 1 THEN 1 ELSE 0)

RECURSIVE SumSeq(_)
SumSeq(s) == IF s = <<>> THEN 0 ELSE Head(s) + SumSeq(Tail(s))

RECURSIVE SumFracs(_)
SumFracs(s) == IF s = <<>> THEN Frac(0, 1) ELSE FracAdd(Head(s), SumFracs(Tail(s)))

\* Math.ceil(n / d) for n >= 0, d >= 1.
CeilDiv(n, d) == (n + d - 1) \div d

TimesOfDay == <<"dawn", "morning", "evening", "night">>

OnDay(ss, dayOfWeek) == SelectSeq(ss, LAMBDA s : s.dayOfWeek = dayOfWeek)
AtTime(ss, t) == SelectSeq(ss, LAMBDA s : s.timeOfDay = t)
OfTask(ss, id) == SelectSeq(ss, LAMBDA s : s.taskId = id)

Durations(ss) == [i \in 1..Len(ss) |-> ss[i].durationMinutes]
Ratings(ss) == [i \in 1..Len(ss) |-> ss[i].focusRating]
Lengths(ss) == [i \in 1..Len(ss) |-> ss[i].endMinutes - ss[i].startMinutes]

(***************************************************************************)
(* FOCUS PROFILE & WEIGHTING.  focusRating is carried in tenths.            *)
(***************************************************************************)
buildFocusProfile(completedSessions) ==
  [timeOfDayScores |->
     [t \in {"dawn", "morning", "evening", "night"} |->
        LET data == AtTime(completedSessions, t)
        IN IF Len(data) > 0
           THEN Frac(SumSeq(Ratings(data)), Len(data))
           ELSE Frac(30, 1)],
   sampleCount |-> Len(completedSessions)]

calculateBlockWeight(block, focusProfile, bestFocusTime) ==
  LET w1 == IF block.isPreferred THEN Frac(14, 10) ELSE Frac(6, 10)
      blockTime == getTimeOfDay(block.startMinutes)
      focusScore == focusProfile.timeOfDayScores[blockTime]
      \* 0.7 + (focusScore / 5.0) * 0.6, focusScore in tenths
      adjust == FracAdd(Frac(7, 10), Frac(6 * focusScore.num, 500 * focusScore.den))
      w2 == IF focusProfile.sampleCount >= 5 THEN FracMul(w1, adjust) ELSE w1
  IN IF bestFocusTime # "null" /\ blockTime = bestFocusTime
     THEN FracMul(w2, Frac(13, 10))
     ELSE w2

RECURSIVE InsertBlock(_, _)
\* One step of the stable descending sort by weight.
InsertBlock(x, s) ==
  IF s = <<>> THEN <<x>>
  ELSE IF FracLE(x.weight, Head(s).weight)
       THEN <<Head(s)>> \o InsertBlock(x, Tail(s))
       ELSE <<x>> \o s

RECURSIVE SortBlocks(_)
SortBlocks(blocks) ==
  IF blocks = <<>> THEN <<>>
  ELSE InsertBlock(blocks[Len(blocks)], SortBlocks(SubSeq(blocks, 1, Len(blocks) - 1)))

weightAndSortBlocks(blocks, focusProfile, bestFocusTime) ==
  SortBlocks([i \in 1..Len(blocks) |->
     [dayOfWeek |-> blocks[i].dayOfWeek,
      startMinutes |-> blocks[i].startMinutes,
      endMinutes |-> blocks[i].endMinutes,
      isPreferred |-> blocks[i].isPreferred,
      weight |-> calculateBlockWeight(blocks[i], focusProfile, bestFocusTime)]])

(***************************************************************************)
(* FATIGUE & ADJUSTMENT.  adjustmentFactor is carried in tenths.            *)
(***************************************************************************)
\* dailyMetrics.reduce(sum + adjustmentFactor, 0) / Math.max(length, 1)
AverageAdjustment(dailyMetrics) ==
  Frac(SumSeq([i \in 1..Len(dailyMetrics) |-> dailyMetrics[i].adjustmentFactor]),
       10 * Max(Len(dailyMetrics), 1))

applyAdjustmentFactorToCapacity(totalMinutes, dailyMetrics, fatigueIndicator) ==
  LET avgAdjustment == AverageAdjustment(dailyMetrics)
      discounted ==
        IF FracLT(Frac(3, 10), fatigueIndicator)
        THEN FracMul(avgAdjustment,
                     Frac(10 * fatigueIndicator.den - 3 * fatigueIndicator.num,
                          10 * fatigueIndicator.den))
        ELSE avgAdjustment
      capacityMultiplier == FracMax(Frac(1, 2), FracMin(Frac(1, 1), discounted))
  IN FracMul(Frac(totalMinutes * 3, 4), capacityMultiplier)

(***************************************************************************)
(* SESSION BREAK LOGIC                                                      *)
(***************************************************************************)
\* Mutant: a break of a fifth of a pomodoro.
BreakMinutes_Fifth(pomodoroMinutes) == (2 * pomodoroMinutes + 5) \div 10

\* Math.round(pomodoroMinutes * 0.4): 2p/5 is never halfway between integers.
BreakMinutes(pomodoroMinutes) == (4 * pomodoroMinutes + 5) \div 10

\* Mutant: a break is never inserted.
shouldInsertBreak_Never(count, maxConsecutive, blockRemainingMinutes, pomodoroMinutes) ==
  [insert |-> FALSE, breakMinutes |-> 0]

\* Mutant: the break comes one session late.
shouldInsertBreak_OffByOne(count, maxConsecutive, blockRemainingMinutes, pomodoroMinutes) ==
  IF count <= maxConsecutive
  THEN [insert |-> FALSE, breakMinutes |-> 0]
  ELSE IF blockRemainingMinutes >= BreakMinutes(pomodoroMinutes)
       THEN [insert |-> TRUE, breakMinutes |-> BreakMinutes(pomodoroMinutes)]
       ELSE [insert |-> FALSE, breakMinutes |-> 0]

shouldInsertBreak(count, maxConsecutive, blockRemainingMinutes, pomodoroMinutes) ==
  IF count < maxConsecutive
  THEN [insert |-> FALSE, breakMinutes |-> 0]
  ELSE IF blockRemainingMinutes >= BreakMinutes(pomodoroMinutes)
       THEN [insert |-> TRUE, breakMinutes |-> BreakMinutes(pomodoroMinutes)]
       ELSE [insert |-> FALSE, breakMinutes |-> 0]

(***************************************************************************)
(* TASK PRIORITIZATION.  The score is a fraction; estimatedHours * 10 is    *)
(* estimatedMinutes / 6.                                                    *)
(***************************************************************************)
\* deadlineDayIndex is <<d>> for the day index d and NoDeadline for null.
NoDeadline == <<>>

\* The term added for a deadline that is today or past.
OverdueBonus == 10000

\* Mutant: a deadline that is today or past adds nothing.
calculateTaskPriority_NoOverdueBonus(task, currentDay) ==
  LET base == Frac(task.urgency * 100, 1)
      deadlineTerm ==
        IF task.deadlineDayIndex # NoDeadline /\ task.deadlineDayIndex[1] - currentDay > 0
        THEN Frac(500, task.deadlineDayIndex[1] - currentDay)
        ELSE Frac(0, 1)
  IN FracAdd(FracAdd(base, deadlineTerm), Frac(task.estimatedMinutes, 6))

calculateTaskPriority(task, currentDay) ==
  LET base == Frac(task.urgency * 100, 1)
      deadlineTerm ==
        IF task.deadlineDayIndex # NoDeadline
        THEN IF task.deadlineDayIndex[1] - currentDay > 0
             THEN Frac(500, task.deadlineDayIndex[1] - currentDay)
             ELSE Frac(OverdueBonus, 1)
        ELSE Frac(0, 1)
  IN FracAdd(FracAdd(base, deadlineTerm), Frac(task.estimatedMinutes, 6))

RECURSIVE InsertTask_TiesFirst(_, _, _)
\* Mutant: a task is put before the tasks of equal priority given earlier.
InsertTask_TiesFirst(x, s, currentDay) ==
  IF s = <<>> THEN <<x>>
  ELSE IF FracLT(calculateTaskPriority(x, currentDay),
                 calculateTaskPriority(Head(s), currentDay))
       THEN <<Head(s)>> \o InsertTask_TiesFirst(x, Tail(s), currentDay)
       ELSE <<x>> \o s

RECURSIVE InsertTask(_, _, _)
\* One step of the stable descending sort by priority.
InsertTask(x, s, currentDay) ==
  IF s = <<>> THEN <<x>>
  ELSE IF FracLE(calculateTaskPriority(x, currentDay),
                 calculateTaskPriority(Head(s), currentDay))
       THEN <<Head(s)>> \o InsertTask(x, Tail(s), currentDay)
       ELSE <<x>> \o s

RECURSIVE sortTasksByPriority(_, _)
sortTasksByPriority(tasks, currentDay) ==
  IF tasks = <<>> THEN <<>>
  ELSE InsertTask(tasks[Len(tasks)],
                  sortTasksByPriority(SubSeq(tasks, 1, Len(tasks) - 1), currentDay),
                  currentDay)

(***************************************************************************)
(* DAILY METRICS                                                            *)
(***************************************************************************)
\* The status and the adjustment factor both variants derive from the scores.
Classify(plannedMinutes, actualMinutes, adherenceScore, focusScore) ==
  LET status ==
        IF FracLT(adherenceScore, Frac(1, 2)) \/ FracLT(focusScore, Frac(2, 5))
        THEN "fatigued"
        ELSE IF FracLT(adherenceScore, Frac(3, 4)) THEN "behind"
        ELSE IF FracLT(Frac(11, 10), adherenceScore) THEN "overperforming"
        ELSE "on_track"
      adjustmentFactor ==
        IF status = "fatigued" THEN 7
        ELSE IF status = "behind" /\ FracLT(Frac(3, 5), focusScore) THEN 9
        ELSE 10
  IN [status |-> status,
      plannedMinutes |-> plannedMinutes,
      actualMinutes |-> actualMinutes,
      adherenceScore |-> adherenceScore,
      focusScore |-> focusScore,
      adjustmentFactor |-> adjustmentFactor]

calculateDailyMetricsForRolling(dayOfWeek, previousScheduledSessions, completedSessions) ==
  LET daySessions == OnDay(previousScheduledSessions, dayOfWeek)
      done == OnDay(completedSessions, dayOfWeek)
      actualMinutes == SumSeq(Durations(done))
      planned0 == SumSeq(Lengths(daySessions))
      plannedMinutes == IF planned0 = 0 /\ actualMinutes > 0 THEN actualMinutes ELSE planned0
      adherenceScore ==
        IF plannedMinutes > 0
        THEN FracMin(Frac(actualMinutes, plannedMinutes), Frac(3, 2))
        ELSE Frac(1, 1)
      focusSum == SumSeq(Ratings(done))
      focusCount == Len(done)
      focusScore == IF focusCount > 0 THEN Frac(focusSum, focusCount * 50) ELSE Frac(4, 5)
  IN Classify(plannedMinutes, actualMinutes, adherenceScore, focusScore)

calculateDailyMetrics(dayOfWeek, scheduledSessions, completedSessions) ==
  LET daySessions == OnDay(scheduledSessions, dayOfWeek)
      plannedMinutes == SumSeq(Lengths(daySessions))
      done == OnDay(completedSessions, dayOfWeek)
      actualMinutes == SumSeq(Durations(done))
      adherenceScore ==
        IF plannedMinutes > 0 THEN Frac(actualMinutes, plannedMinutes) ELSE Frac(0, 1)
      focusSum == SumSeq(Ratings(done))
      focusCount == Len(done)
      focusScore == IF focusCount > 0 THEN Frac(focusSum, focusCount * 50) ELSE Frac(0, 1)
  IN Classify(plannedMinutes, actualMinutes, adherenceScore, focusScore)

(***************************************************************************)
(* WEEKLY METRICS (the fields the planner reads)                            *)
(***************************************************************************)
RECURSIVE ScanFocusByTime(_, _, _, _, _, _)
\* The loop over Object.entries(focusByTime), in the order of TimesOfDay.
ScanFocusByTime(completedSessions, i, best, worst, maxAvg, minAvg) ==
  IF i > Len(TimesOfDay)
  THEN [bestFocusTime |-> best, worstFocusTime |-> worst]
  ELSE LET data == AtTime(completedSessions, TimesOfDay[i])
       IN IF Len(data) > 0
          THEN LET avg == Frac(SumSeq(Ratings(data)), Len(data))
                   up == FracLT(maxAvg, avg)
                   down == FracLT(avg, minAvg)
               IN ScanFocusByTime(completedSessions, i + 1,
                                  IF up THEN TimesOfDay[i] ELSE best,
                                  IF down THEN TimesOfDay[i] ELSE worst,
                                  IF up THEN avg ELSE maxAvg,
                                  IF down THEN avg ELSE minAvg)
          ELSE ScanFocusByTime(completedSessions, i + 1, best, worst, maxAvg, minAvg)

calculateWeeklyMetrics(tasks, scheduledSessions, completedSessions) ==
  LET scan == ScanFocusByTime(completedSessions, 1, "null", "null",
                              Frac(0, 1), Frac(60, 1))
      dailyAdherence ==
        [d \in 1..DaysPerWeek |->
           calculateDailyMetrics(d - 1, scheduledSessions, completedSessions).adherenceScore]
      total == SumFracs(dailyAdherence)
      avgAdherence == Frac(total.num, total.den * DaysPerWeek)
      fatigueIndicator ==
        IF FracLT(avgAdherence, Frac(3, 5))
        THEN Frac(avgAdherence.den - avgAdherence.num, avgAdherence.den)
        ELSE Frac(0, 1)
  IN [bestFocusTime |-> scan.bestFocusTime,
      worstFocusTime |-> scan.worstFocusTime,
      fatigueIndicator |-> fatigueIndicator]

(***************************************************************************)
(* ANALYSIS.  A completed session without sequenceNumber is a record        *)
(* without that field.                                                      *)
(***************************************************************************)
\* sessionsBySequence[seq]: the focus ratings logged at a sequence position.
RatingsAtSequence(completedSessions, seq) ==
  Ratings(SelectSeq(completedSessions,
            LAMBDA s : "sequenceNumber" \in DOMAIN s /\ s.sequenceNumber = seq))

\* avgBySequence[seq], for a position that has ratings.
AvgBySequence(completedSessions, seq) ==
  LET ratings == RatingsAtSequence(completedSessions, seq)
  IN Frac(SumSeq(ratings), Len(ratings))

\* The truthiness test of avgBySequence[seq]: undefined and 0 are both falsy.
TruthyAvg(completedSessions, seq) ==
  /\ Len(RatingsAtSequence(completedSessions, seq)) > 0
  /\ AvgBySequence(completedSessions, seq).num # 0

RECURSIVE FindDropoff(_, _, _)
\* The loop for (i = 1; i < currentMax; i++) with its break.
FindDropoff(completedSessions, i, currentMax) ==
  IF i >= currentMax THEN currentMax
  ELSE IF /\ TruthyAvg(completedSessions, i)
          /\ TruthyAvg(completedSessions, i - 1)
          /\ FracLT(AvgBySequence(completedSessions, i),
                    FracMul(AvgBySequence(completedSessions, i - 1), Frac(3, 4)))
       THEN i
       ELSE FindDropoff(completedSessions, i + 1, currentMax)

analyzeConsecutiveSessionsPattern(completedSessions, currentMax) ==
  LET dropoffPoint == FindDropoff(completedSessions, 1, currentMax)
  IN [type |-> "suggest_max_consecutive_pomodoros",
      value |-> Max(1, Min(dropoffPoint, currentMax)),
      confidence |-> IF Len(completedSessions) >= 10 THEN Frac(4, 5) ELSE Frac(1, 2),
      reason |-> "focus_pattern_analysis"]

(***************************************************************************)
(* Validity of preferences, as the data model states it.                    *)
(***************************************************************************)
ValidSlot(s) == 0 <= s.startMinutes /\ s.startMinutes < s.endMinutes /\ s.endMinutes < 1440

ValidPreferences(p) ==
  /\ p.wakeTimeMinutes < p.sleepTimeMinutes
  /\ \A i \in 1..Len(p.unavailableSlots) : ValidSlot(p.unavailableSlots[i])

(***************************************************************************)
(* SCHEDULE GENERATION: one planning call, step by step.                    *)
(***************************************************************************)
HarnessIdle == fn = "none" /\ args = <<>> /\ ret = <<>>

PlannerIdle ==
  /\ call = "none" /\ input = <<>> /\ pc = "idle" /\ params = <<>>
  /\ sortedTasks = <<>> /\ weekBlocks = <<>> /\ totalAvailableMinutes = 0
  /\ maxUsableMinutes = Frac(0, 1) /\ usedMinutes = 0 /\ sessionId = 0
  /\ sessions = <<>> /\ taskConsecutiveCounts = <<>>
  /\ ti = 0 /\ sessionsNeeded = 0 /\ sessionsScheduled = 0 /\ day = 0 /\ bi = 0
  /\ blockCursor = 0 /\ consecutiveCount = 0 /\ result = "none"
  /\ placed = <<>> /\ taskLog = <<>>

Task(id, estimatedMinutes, urgency, deadlineDayIndex) ==
  [id |-> id, estimatedMinutes |-> estimatedMinutes, urgency |-> urgency,
   deadlineDayIndex |-> deadlineDayIndex]

Slot(dayOfWeek, startMinutes, endMinutes, type) ==
  [dayOfWeek |-> dayOfWeek, startMinutes |-> startMinutes,
   endMinutes |-> endMinutes, type |-> type]

Prefs(wake, sleep, maxConsecutive, slots) ==
  [wakeTimeMinutes |-> wake, sleepTimeMinutes |-> sleep,
   maxConsecutivePomodoros |-> maxConsecutive, unavailableSlots |-> slots]

Completed(taskId, durationMinutes, focusRating, dayOfWeek, timeOfDay, sequenceNumber) ==
  [taskId |-> taskId, durationMinutes |-> durationMinutes, focusRating |-> focusRating,
   dayOfWeek |-> dayOfWeek, timeOfDay |-> timeOfDay, sequenceNumber |-> sequenceNumber]

Scheduled(id, taskId, dayOfWeek, startMinutes, endMinutes, sequenceNumber) ==
  [id |-> id, taskId |-> taskId, dayOfWeek |-> dayOfWeek, startMinutes |-> startMinutes,
   endMinutes |-> endMinutes, sequenceNumber |-> sequenceNumber]

\* The arguments planning calls are made with.
PlanTaskPool ==
  {Task("a", 120, 5, NoDeadline), Task("b", 180, 3, <<2>>), Task("c", 20, 1, NoDeadline)}

PlanPreferences ==
  {Prefs(480, 1320, 4, <<>>),
   Prefs(480, 520, 1, <<>>),
   Prefs(480, 600, 3, <<>>),
   Prefs(480, 600, 1, <<Slot(0, 530, 560, "unavailable")>>),
   Prefs(480, 520, 2, <<Slot(0, 560, 600, "unavailable")>>),
   Prefs(480, 600, 2, <<Slot(1, 540, 570, "not_preferred")>>),
   Prefs(660, 780, 2, <<Slot(0, 700, 730, "unavailable")>>),
   Prefs(520, 480, 4, <<>>)}

PlanPomodoros == {25, 15}
PlanCurrentDays == {0, 2}

NoHistory == <<>>
OneSession == <<Completed("a", 25, 40, 0, "dawn", 0)>>
FiveSessions ==
  <<Completed("a", 25, 20, 0, "dawn", 0), Completed("a", 25, 20, 0, "dawn", 1),
    Completed("b", 25, 30, 1, "dawn", 0), Completed("b", 25, 50, 1, "morning", 0),
    Completed("a", 70, 50, 2, "morning", 1)>>

FatiguedDay == Classify(100, 30, Frac(3, 10), Frac(4, 5))
OnTrackDay == Classify(100, 100, Frac(1, 1), Frac(4, 5))
AllFatigued == [d \in 1..DaysPerWeek |-> FatiguedDay]
AllOnTrack == [d \in 1..DaysPerWeek |-> OnTrackDay]

PreviousPlan ==
  <<Scheduled(0, "a", 0, 480, 505, 0), Scheduled(1, "a", 0, 505, 530, 1),
    Scheduled(2, "b", 1, 480, 505, 0)>>

PlanCalls ==
  {[call |-> "generateProposedWeeklySchedule", completedSessions |-> NoHistory,
    dailyMetrics |-> <<>>, previousScheduledSessions |-> <<>>]}
  \cup
  {[call |-> "generateProposedWeeklyScheduleWithHistory", completedSessions |-> h[1],
    dailyMetrics |-> h[2], previousScheduledSessions |-> <<>>] :
      h \in {<<NoHistory, AllFatigued>>, <<OneSession, AllFatigued>>,
             <<FiveSessions, AllOnTrack>>}}
  \cup
  {[call |-> "generateRollingPlan", completedSessions |-> h[1],
    dailyMetrics |-> <<>>, previousScheduledSessions |-> h[2]] :
      h \in {<<NoHistory, <<>> >>, <<OneSession, <<>> >>,
             <<FiveSessions, PreviousPlan>>}}

\* The planner before the call: nothing computed yet.
PlannerStart ==
  /\ pc = "call" /\ params = <<>>
  /\ sortedTasks = <<>> /\ weekBlocks = <<>> /\ totalAvailableMinutes = 0
  /\ maxUsableMinutes = Frac(0, 1) /\ usedMinutes = 0 /\ sessionId = 0
  /\ sessions = <<>> /\ taskConsecutiveCounts = <<>>
  /\ ti = 0 /\ sessionsNeeded = 0 /\ sessionsScheduled = 0 /\ day = 0 /\ bi = 0
  /\ blockCursor = 0 /\ consecutiveCount = 0 /\ result = "none"
  /\ placed = <<>> /\ taskLog = <<>>

Init ==
  /\ HarnessIdle
  /\ \E c \in PlanCalls :
       /\ call = c.call
       /\ input \in [tasks : SeqsUpTo(PlanTaskPool, MaxTasks),
                     preferences : PlanPreferences,
                     currentDay : PlanCurrentDays,
                     pomodoroMinutes : PlanPomodoros,
                     completedSessions : {c.completedSessions},
                     dailyMetrics : {c.dailyMetrics},
                     previousScheduledSessions : {c.previousScheduledSessions}]
  /\ PlannerStart

Params(tasks, completedSessions, dailyMetrics) ==
  [tasks |-> tasks,
   preferences |-> input.preferences,
   currentDay |-> input.currentDay,
   pomodoroMinutes |-> input.pomodoroMinutes,
   completedSessions |-> completedSessions,
   dailyMetrics |-> dailyMetrics]

locals == <<sortedTasks, weekBlocks, totalAvailableMinutes, maxUsableMinutes,
            usedMinutes, sessionId, sessions, taskConsecutiveCounts,
            ti, sessionsNeeded, sessionsScheduled, day, bi, blockCursor,
            consecutiveCount, result, placed, taskLog>>

\* generateProposedWeeklySchedule: no completed sessions, no daily metrics.
generateProposedWeeklySchedule ==
  /\ pc = "call" /\ call = "generateProposedWeeklySchedule"
  /\ params' = Params(input.tasks, <<>>, <<>>)
  /\ pc' = "prepare"
  /\ UNCHANGED <<hvars, call, input, locals>>

\* A direct call of generateProposedWeeklyScheduleWithHistory.
generateProposedWeeklyScheduleWithHistory ==
  /\ pc = "call" /\ call = "generateProposedWeeklyScheduleWithHistory"
  /\ params' = Params(input.tasks, input.completedSessions, input.dailyMetrics)
  /\ pc' = "prepare"
  /\ UNCHANGED <<hvars, call, input, locals>>

\* task.estimatedHours: the double nearest to estimatedMinutes / 60, or the
\* double generateRollingPlan has put in its place.
EstimatedHours(task) ==
  IF "estimatedHours" \in DOMAIN task THEN task.estimatedHours
  ELSE DDivInt(DFromInt(task.estimatedMinutes), 60)

RECURSIVE HoursLogged(_)
\* taskProgress.get(id): current + session.durationMinutes / 60 over the
\* sessions of one task, in their order.
HoursLogged(ss) ==
  IF ss = <<>> THEN DZero
  ELSE DAdd(HoursLogged(SubSeq(ss, 1, Len(ss) - 1)),
            DDivInt(DFromInt(ss[Len(ss)].durationMinutes), 60))

\* remainingHours = Math.max(0, task.estimatedHours - hoursCompleted)
RemainingHours(task, completedSessions) ==
  DSubOrZero(EstimatedHours(task), HoursLogged(OfTask(completedSessions, task.id)))

\* The same in exact minutes: what the priority score is computed from.
RemainingMinutes(task, completedSessions) ==
  Max(0, task.estimatedMinutes - SumSeq(Durations(OfTask(completedSessions, task.id))))

\* { ...task, estimatedHours: remainingHours }, filtered by estimatedHours > 0.
AdjustedTasks(remainingTasks, completedSessions) ==
  SelectSeq([i \in 1..Len(remainingTasks) |->
               [estimatedHours |-> RemainingHours(remainingTasks[i], completedSessions)]
                 @@ [remainingTasks[i] EXCEPT
                       !.estimatedMinutes =
                          RemainingMinutes(remainingTasks[i], completedSessions)]],
            LAMBDA t : t.estimatedHours # DZero)

generateRollingPlan ==
  /\ pc = "call" /\ call = "generateRollingPlan"
  /\ params' = Params(AdjustedTasks(input.tasks, input.completedSessions),
                      input.completedSessions,
                      [d \in 1..DaysPerWeek |->
                         calculateDailyMetricsForRolling(d - 1,
                           input.previousScheduledSessions, input.completedSessions)])
  /\ pc' = "prepare"
  /\ UNCHANGED <<hvars, call, input, locals>>

RECURSIVE Flatten(_)
Flatten(ss) == IF ss = <<>> THEN <<>> ELSE Head(ss) \o Flatten(Tail(ss))

\* usedMinutes < maxUsableMinutes
BelowCeiling(used, ceiling) == used * ceiling.den < ceiling.num

\* Lines 362-394: everything before the loop over the tasks.
Prepare ==
  /\ pc = "prepare"
  /\ LET focusProfile == buildFocusProfile(params.completedSessions)
         hasMetrics == Len(params.completedSessions) > 0
         weeklyMetrics ==
           calculateWeeklyMetrics(params.tasks, <<>>, params.completedSessions)
         bestFocusTime == IF hasMetrics THEN weeklyMetrics.bestFocusTime ELSE "null"
         blocks ==
           [d \in 1..DaysPerWeek |->
              weightAndSortBlocks(
                calculateAvailableBlocks(d - 1, params.preferences, params.pomodoroMinutes),
                focusProfile, bestFocusTime)]
         total == SumSeq(Lengths(Flatten(blocks)))
         fatigueIndicator ==
           IF hasMetrics THEN weeklyMetrics.fatigueIndicator ELSE Frac(0, 1)
     IN /\ sortedTasks' = sortTasksByPriority(params.tasks, params.currentDay)
        /\ weekBlocks' = blocks
        /\ totalAvailableMinutes' = total
        /\ maxUsableMinutes' =
             applyAdjustmentFactorToCapacity(total, params.dailyMetrics, fatigueIndicator)
  /\ usedMinutes' = 0 /\ sessionId' = 0 /\ sessions' = <<>>
  /\ taskConsecutiveCounts' = <<>>
  /\ pc' = "task"
  /\ UNCHANGED <<hvars, call, input, params, ti, sessionsNeeded, sessionsScheduled,
                 day, bi, blockCursor, consecutiveCount, result, placed, taskLog>>

\* Mutant: the number of sessions is rounded down.
SessionsNeeded_Floor(task, pomodoroMinutes) == task.estimatedMinutes \div pomodoroMinutes

\* Math.ceil(task.estimatedHours * 60 / pomodoroMinutes)
SessionsNeeded(task, pomodoroMinutes) ==
  DCeil(DDivInt(DMulInt(EstimatedHours(task), 60), pomodoroMinutes))

\* Lines 396-400: the next task of sortedTasks.
ForTask ==
  /\ pc = "task" /\ ti < Len(sortedTasks)
  /\ ti' = ti + 1
  /\ sessionsNeeded' = SessionsNeeded(sortedTasks[ti + 1], params.pomodoroMinutes)
  /\ sessionsScheduled' = 0
  /\ day' = 0
  /\ pc' = "day"
  /\ UNCHANGED <<hvars, call, input, params, sortedTasks, weekBlocks,
                 totalAvailableMinutes, maxUsableMinutes, usedMinutes, sessionId,
                 sessions, taskConsecutiveCounts, bi, blockCursor, consecutiveCount,
                 result, placed, taskLog>>

\* Line 402: the test of the loop over the days.
ForDay ==
  /\ pc = "day"
  /\ IF day < DaysPerWeek /\ sessionsScheduled < sessionsNeeded
     THEN /\ bi' = 1
          /\ pc' = "block"
          /\ UNCHANGED taskLog
     ELSE /\ pc' = "task"
          /\ taskLog' = Append(taskLog,
               [task |-> sortedTasks[ti], sessionsNeeded |-> sessionsNeeded,
                sessionsScheduled |-> sessionsScheduled, usedMinutes |-> usedMinutes])
          /\ UNCHANGED bi
  /\ UNCHANGED <<hvars, call, input, params, sortedTasks, weekBlocks,
                 totalAvailableMinutes, maxUsableMinutes, usedMinutes, sessionId,
                 sessions, taskConsecutiveCounts, ti, sessionsNeeded, sessionsScheduled,
                 day, blockCursor, consecutiveCount, result, placed>>

CountOf(counts, id) == IF id \in DOMAIN counts THEN counts[id] ELSE 0
SetCount(counts, id, n) == (id :> n) @@ counts

\* Lines 405-410: the next block of the day, or the end of the day.
ForBlock ==
  /\ pc = "block"
  /\ IF bi > Len(weekBlocks[day + 1])
        \/ sessionsScheduled >= sessionsNeeded
        \/ ~BelowCeiling(usedMinutes, maxUsableMinutes)
     THEN /\ day' = day + 1
          /\ pc' = "day"
          /\ UNCHANGED <<blockCursor, consecutiveCount>>
     ELSE /\ blockCursor' = weekBlocks[day + 1][bi].startMinutes
          /\ consecutiveCount' = CountOf(taskConsecutiveCounts, sortedTasks[ti].id)
          /\ pc' = "while"
          /\ UNCHANGED day
  /\ UNCHANGED <<hvars, call, input, params, sortedTasks, weekBlocks,
                 totalAvailableMinutes, maxUsableMinutes, usedMinutes, sessionId,
                 sessions, taskConsecutiveCounts, ti, sessionsNeeded, sessionsScheduled,
                 bi, result, placed, taskLog>>

\* Mutant: only the start of the pomodoro has to lie in the block.
FitsInBlock_StartOnly(cursor, pomodoroMinutes, block) == cursor <= block.endMinutes

\* blockCursor + pomodoroMinutes <= block.endMinutes (lines 412 and 429)
FitsInBlock(cursor, pomodoroMinutes, block) ==
  cursor + pomodoroMinutes <= block.endMinutes

\* Mutant: an inserted break ends the iteration; the loop tests its condition
\* again with the counter as it was.
WhileStep_BreakThenRetry ==
  /\ pc = "while"
  /\ LET block == weekBlocks[day + 1][bi]
         task == sortedTasks[ti]
         pomodoroMinutes == params.pomodoroMinutes
         breakCheck == shouldInsertBreak(consecutiveCount,
                                         params.preferences.maxConsecutivePomodoros,
                                         block.endMinutes - blockCursor,
                                         pomodoroMinutes)
         cursor == IF breakCheck.insert THEN blockCursor + breakCheck.breakMinutes
                   ELSE blockCursor
         count == IF breakCheck.insert THEN 0 ELSE consecutiveCount
         counts == IF breakCheck.insert
                   THEN SetCount(taskConsecutiveCounts, task.id, 0)
                   ELSE taskConsecutiveCounts
     IN IF ~(/\ FitsInBlock(blockCursor, pomodoroMinutes, block)
             /\ sessionsScheduled < sessionsNeeded
             /\ BelowCeiling(usedMinutes, maxUsableMinutes))
        THEN /\ pc' = "endblock"
             /\ UNCHANGED <<blockCursor, consecutiveCount, taskConsecutiveCounts,
                            sessions, sessionId, sessionsScheduled, usedMinutes, placed>>
        ELSE IF breakCheck.insert
        THEN /\ pc' = "while"
             /\ blockCursor' = cursor
             /\ UNCHANGED <<consecutiveCount, taskConsecutiveCounts,
                            sessions, sessionId, sessionsScheduled, usedMinutes, placed>>
        ELSE /\ sessions' = Append(sessions,
                  Scheduled(sessionId, task.id, day, cursor, cursor + pomodoroMinutes, count))
             /\ placed' = Append(placed,
                  [task |-> ti, day |-> day, block |-> bi,
                   blockStart |-> block.startMinutes, blockEnd |-> block.endMinutes,
                   afterBreak |-> breakCheck.insert, usedBefore |-> usedMinutes])
             /\ sessionId' = sessionId + 1
             /\ blockCursor' = cursor + pomodoroMinutes
             /\ sessionsScheduled' = sessionsScheduled + 1
             /\ consecutiveCount' = count + 1
             /\ taskConsecutiveCounts' = SetCount(counts, task.id, count + 1)
             /\ usedMinutes' = usedMinutes + pomodoroMinutes
             /\ pc' = "while"
  /\ UNCHANGED <<hvars, call, input, params, sortedTasks, weekBlocks,
                 totalAvailableMinutes, maxUsableMinutes, ti, sessionsNeeded, day, bi,
                 result, taskLog>>

\* Lines 412-448: one iteration of the packing loop, or its exit.
WhileStep ==
  /\ pc = "while"
  /\ LET block == weekBlocks[day + 1][bi]
         task == sortedTasks[ti]
         pomodoroMinutes == params.pomodoroMinutes
         breakCheck == shouldInsertBreak(consecutiveCount,
                                         params.preferences.maxConsecutivePomodoros,
                                         block.endMinutes - blockCursor,
                                         pomodoroMinutes)
         cursor == IF breakCheck.insert THEN blockCursor + breakCheck.breakMinutes
                   ELSE blockCursor
         count == IF breakCheck.insert THEN 0 ELSE consecutiveCount
         counts == IF breakCheck.insert
                   THEN SetCount(taskConsecutiveCounts, task.id, 0)
                   ELSE taskConsecutiveCounts
     IN IF ~(/\ FitsInBlock(blockCursor, pomodoroMinutes, block)
             /\ sessionsScheduled < sessionsNeeded
             /\ BelowCeiling(usedMinutes, maxUsableMinutes))
        THEN /\ pc' = "endblock"
             /\ UNCHANGED <<blockCursor, consecutiveCount, taskConsecutiveCounts,
                            sessions, sessionId, sessionsScheduled, usedMinutes, placed>>
        ELSE IF breakCheck.insert /\ ~FitsInBlock(cursor, pomodoroMinutes, block)
        THEN /\ pc' = "endblock"
             /\ blockCursor' = cursor
             /\ consecutiveCount' = count
             /\ taskConsecutiveCounts' = counts
             /\ UNCHANGED <<sessions, sessionId, sessionsScheduled, usedMinutes, placed>>
        ELSE /\ sessions' = Append(sessions,
                  Scheduled(sessionId, task.id, day, cursor, cursor + pomodoroMinutes, count))
             /\ placed' = Append(placed,
                  [task |-> ti, day |-> day, block |-> bi,
                   blockStart |-> block.startMinutes, blockEnd |-> block.endMinutes,
                   afterBreak |-> breakCheck.insert, usedBefore |-> usedMinutes])
             /\ sessionId' = sessionId + 1
             /\ blockCursor' = cursor + pomodoroMinutes
             /\ sessionsScheduled' = sessionsScheduled + 1
             /\ consecutiveCount' = count + 1
             /\ taskConsecutiveCounts' = SetCount(counts, task.id, count + 1)
             /\ usedMinutes' = usedMinutes + pomodoroMinutes
             /\ pc' = "while"
  /\ UNCHANGED <<hvars, call, input, params, sortedTasks, weekBlocks,
                 totalAvailableMinutes, maxUsableMinutes, ti, sessionsNeeded, day, bi,
                 result, taskLog>>

\* Line 450: the counter of the task is reset when the block is left.
EndBlock ==
  /\ pc = "endblock"
  /\ taskConsecutiveCounts' = SetCount(taskConsecutiveCounts, sortedTasks[ti].id, 0)
  /\ bi' = bi + 1
  /\ pc' = "block"
  /\ UNCHANGED <<hvars, call, input, params, sortedTasks, weekBlocks,
                 totalAvailableMinutes, maxUsableMinutes, usedMinutes, sessionId,
                 sessions, ti, sessionsNeeded, sessionsScheduled, day, blockCursor,
                 consecutiveCount, result, placed, taskLog>>

\* Lines 455-459: the returned proposal.
Return ==
  /\ pc = "task" /\ ti = Len(sortedTasks)
  /\ result' = [sessions |-> sessions,
                totalPlannedHours |-> Frac(usedMinutes, 60),
                utilizationRate |-> Divide(Frac(usedMinutes, 1), maxUsableMinutes)]
  /\ pc' = "done"
  /\ UNCHANGED <<hvars, call, input, params, sortedTasks, weekBlocks,
                 totalAvailableMinutes, maxUsableMinutes, usedMinutes, sessionId,
                 sessions, taskConsecutiveCounts, ti, sessionsNeeded, sessionsScheduled,
                 day, bi, blockCursor, consecutiveCount, placed, taskLog>>

Next ==
  \/ generateProposedWeeklySchedule
  \/ generateProposedWeeklyScheduleWithHistory
  \/ generateRollingPlan
  \/ Prepare
  \/ ForTask
  \/ ForDay
  \/ ForBlock
  \/ WhileStep
  \/ EndBlock
  \/ Return

Spec == Init /\ [][Next]_vars

(***************************************************************************)
(* Calls of calculateAvailableBlocks on enumerated arguments.               *)
(***************************************************************************)
BlockTimes == {470, 490, 510, 530}
BlockWindows == {<<480, 520>>, <<480, 500>>, <<500, 480>>}
BlockMinSessions == {1, 10, 25}
BlockSlotPool ==
  {[dayOfWeek |-> 0, startMinutes |-> s, endMinutes |-> e, type |-> t] :
       s \in BlockTimes, e \in BlockTimes, t \in {"unavailable", "not_preferred"}}
  \cup {[dayOfWeek |-> 1, startMinutes |-> 490, endMinutes |-> 510, type |-> "unavailable"]}

InitBlocks ==
  /\ PlannerIdle
  /\ fn = "calculateAvailableBlocks"
  /\ args \in [dayOfWeek : {0},
               preferences : [wakeTimeMinutes : {w[1] : w \in BlockWindows},
                              sleepTimeMinutes : {w[2] : w \in BlockWindows},
                              maxConsecutivePomodoros : {4},
                              unavailableSlots : SeqsUpTo(BlockSlotPool, MaxSlots)],
               minSessionMinutes : BlockMinSessions]
  /\ <<args.preferences.wakeTimeMinutes, args.preferences.sleepTimeMinutes>> \in BlockWindows
  /\ ret = "pending"

CallAvailableBlocks ==
  /\ fn = "calculateAvailableBlocks"
  /\ ret = "pending"
  /\ ret' = calculateAvailableBlocks(args.dayOfWeek, args.preferences, args.minSessionMinutes)
  /\ UNCHANGED <<fn, args, pvars>>

NextBlocks == CallAvailableBlocks

SpecBlocks == InitBlocks /\ [][NextBlocks]_vars

(***************************************************************************)
(* Cold-start planning calls on task lists that differ in urgency, deadline *)
(* and estimate, with one free block of 40 minutes a day.                   *)
(***************************************************************************)
PriorityUrgencies == {0, 94, 95, 100}
PriorityEstimates == {60, 6060}
PriorityDeadlines == {<<1>>, <<2>>}
PriorityTaskPool ==
  {Task("?", m, u, d) : m \in PriorityEstimates, u \in PriorityUrgencies,
                        d \in PriorityDeadlines}

\* The tasks of a list get the ids 1, 2, ... of their positions.
WithIds(tasks) == [i \in 1..Len(tasks) |-> [tasks[i] EXCEPT !.id = i]]

InitPriority ==
  /\ HarnessIdle
  /\ call = "generateProposedWeeklySchedule"
  /\ input \in [tasks : {WithIds(t) : t \in SeqsUpTo(PriorityTaskPool, MaxTasks)},
                preferences : {Prefs(480, 520, 2, <<>>)},
                currentDay : {1},
                pomodoroMinutes : {25},
                completedSessions : {<<>>},
                dailyMetrics : {<<>>},
                previousScheduledSessions : {<<>>}]
  /\ PlannerStart

NextPriority ==
  \/ generateProposedWeeklySchedule
  \/ Prepare
  \/ ForTask
  \/ ForDay
  \/ ForBlock
  \/ WhileStep
  \/ EndBlock
  \/ Return

SpecPriority == InitPriority /\ [][NextPriority]_vars

(***************************************************************************)
(* Calls of analyzeConsecutiveSessionsPattern on enumerated histories.      *)
(***************************************************************************)
RECURSIVE Repeat(_, _)
Repeat(s, n) == IF n = 0 THEN <<>> ELSE s \o Repeat(s, n - 1)

AnalysisRatings == {0, 30, 40, 50}
AnalysisPositions == {0, 1, 2}
AnalysisSessionPool ==
  {Completed("a", 25, r, 0, "dawn", q) : r \in AnalysisRatings, q \in AnalysisPositions}
  \cup {[taskId |-> "a", durationMinutes |-> 25, focusRating |-> 50,
         dayOfWeek |-> 0, timeOfDay |-> "dawn"]}
AnalysisMaxima == {1, 2, 3, 4}

\* Sequence positions and ratings [0:5, 0:4.8, 1:5, 1:4.9, 2:3.0], ten times.
ScenarioHistory ==
  Repeat(<<Completed("a", 25, 50, 0, "dawn", 0), Completed("a", 25, 48, 0, "dawn", 0),
           Completed("a", 25, 50, 0, "dawn", 1), Completed("a", 25, 49, 0, "dawn", 1),
           Completed("a", 25, 30, 0, "dawn", 2)>>, 10)

\* The value of ret before a call that returns a record.
Pending == [pending |-> TRUE]

InitAnalysis ==
  /\ PlannerIdle
  /\ fn = "analyzeConsecutiveSessionsPattern"
  /\ args \in [completedSessions :
                 SeqsUpTo(AnalysisSessionPool, MaxHistory) \cup {ScenarioHistory},
               currentMax : AnalysisMaxima]
  /\ ret = Pending

CallAnalyzeConsecutive ==
  /\ fn = "analyzeConsecutiveSessionsPattern"
  /\ ret = Pending
  /\ ret' = analyzeConsecutiveSessionsPattern(args.completedSessions, args.currentMax)
  /\ UNCHANGED <<fn, args, pvars>>

NextAnalysis == CallAnalyzeConsecutive

SpecAnalysis == InitAnalysis /\ [][NextAnalysis]_vars

(***************************************************************************)
(* Rolling re-planning calls whose history logs part, all or more of a      *)
(* task's estimate.                                                         *)
(***************************************************************************)
RollingTaskPool == {Task("a", 120, 5, NoDeadline), Task("b", 60, 3, NoDeadline)}

RollingHistories ==
  {Repeat(<<Completed("a", 20, 40, 0, "dawn", 0)>>, n) : n \in {0, 3, 6, 7}}
  \cup {Repeat(<<Completed("b", 5, 40, 1, "dawn", 0)>>, 7),
        Repeat(<<Completed("b", 30, 40, 1, "dawn", 0)>>, 2),
        <<Completed("a", 70, 40, 0, "dawn", 0), Completed("b", 25, 40, 1, "dawn", 0),
          Completed("a", 25, 40, 0, "dawn", 1)>>,
        <<Completed("a", 25, 50, 0, "dawn", 0), Completed("a", 25, 50, 0, "dawn", 1),
          Completed("b", 25, 50, 1, "dawn", 0)>>}

InitRolling ==
  /\ HarnessIdle
  /\ call = "generateRollingPlan"
  /\ input \in [tasks : SeqsUpTo(RollingTaskPool, MaxTasks),
                preferences : {Prefs(480, 600, 2, <<>>), Prefs(480, 520, 1, <<>>)},
                currentDay : {0},
                pomodoroMinutes : {25, 15},
                completedSessions : RollingHistories,
                dailyMetrics : {<<>>},
                previousScheduledSessions : {<<>>, PreviousPlan}]
  /\ PlannerStart

NextRolling ==
  \/ generateRollingPlan
  \/ Prepare
  \/ ForTask
  \/ ForDay
  \/ ForBlock
  \/ WhileStep
  \/ EndBlock
  \/ Return

SpecRolling == InitRolling /\ [][NextRolling]_vars

(***************************************************************************)
(* Calls of both daily-metrics variants on the same enumerated arguments.   *)
(***************************************************************************)
DailyScheduledPool ==
  {Scheduled(0, "a", 0, 480, 505, 0), Scheduled(1, "a", 0, 505, 530, 1),
   Scheduled(2, "b", 1, 480, 505, 0)}
DailyCompletedPool ==
  {Completed("a", 25, 40, 0, "dawn", 0), Completed("a", 100, 50, 0, "dawn", 1),
   Completed("a", 10, 10, 0, "dawn", 2), Completed("b", 25, 30, 1, "dawn", 0)}

InitDaily ==
  /\ PlannerIdle
  /\ fn = "calculateDailyMetrics"
  /\ args \in [dayOfWeek : {0, 1},
               scheduledSessions : SeqsUpTo(DailyScheduledPool, MaxHistory),
               completedSessions : SeqsUpTo(DailyCompletedPool, MaxHistory)]
  /\ ret = [rolling |-> Pending, plain |-> Pending]

CallDailyMetricsForRolling ==
  /\ fn = "calculateDailyMetrics"
  /\ ret.rolling = Pending
  /\ ret' = [ret EXCEPT !.rolling =
               calculateDailyMetricsForRolling(args.dayOfWeek, args.scheduledSessions,
                                               args.completedSessions)]
  /\ UNCHANGED <<fn, args, pvars>>

CallDailyMetrics ==
  /\ fn = "calculateDailyMetrics"
  /\ ret.plain = Pending
  /\ ret' = [ret EXCEPT !.plain =
               calculateDailyMetrics(args.dayOfWeek, args.scheduledSessions,
                                     args.completedSessions)]
  /\ UNCHANGED <<fn, args, pvars>>

NextDaily == CallDailyMetricsForRolling \/ CallDailyMetrics

SpecDaily == InitDaily /\ [][NextDaily]_vars

(***************************************************************************)
(* Calls of calculateWeeklyMetrics on enumerated histories.                 *)
(***************************************************************************)
WeeklyRatings == {0, 30, 50}
WeeklyCompletedPool ==
  {Completed("a", 25, r, 0, t, 0) :
     r \in WeeklyRatings, t \in {"dawn", "morning", "evening", "night"}}

InitWeekly ==
  /\ PlannerIdle
  /\ fn = "calculateWeeklyMetrics"
  /\ args \in [tasks : {<<Task("a", 120, 5, NoDeadline)>>},
               scheduledSessions : {<<>>, PreviousPlan},
               completedSessions : SeqsUpTo(WeeklyCompletedPool, MaxHistory)]
  /\ ret = Pending

CallWeeklyMetrics ==
  /\ fn = "calculateWeeklyMetrics"
  /\ ret = Pending
  /\ ret' = calculateWeeklyMetrics(args.tasks, args.scheduledSessions,
                                   args.completedSessions)
  /\ UNCHANGED <<fn, args, pvars>>

NextWeekly == CallWeeklyMetrics

SpecWeekly == InitWeekly /\ [][NextWeekly]_vars

(***************************************************************************)
(* The adapter, src/adapter/studyAdapter.ts: runStudyPlanning is handed the *)
(* completed sessions, runStudyPlanningFromDB loads them from the event     *)
(* store.  The adapter is called several times in a row with the same       *)
(* tasks, preferences, currentDay and pomodoroMinutes; the calls differ in  *)
(* the entry point and in the completed sessions passed in or stored.       *)
(* args holds the arguments and the calls to come, fn the adapter function  *)
(* that is running, ret the proposals returned so far.                      *)
(***************************************************************************)
AdapterCalls == 2

AdapterTaskPool == {Task("a", 120, 5, NoDeadline), Task("c", 20, 1, NoDeadline)}

AdapterPreferences ==
  {Prefs(660, 780, 2, <<Slot(0, 700, 730, "unavailable")>>),
   Prefs(480, 520, 1, <<>>)}

\* The answers of the event store to the query of loadCompletedStudySessions:
\* an error, no data, or the payloads of the rows found.
StoreAnswers ==
  {[error |-> FALSE, hasData |-> TRUE, payloads |-> FiveSessions],
   [error |-> FALSE, hasData |-> TRUE, payloads |-> OneSession],
   [error |-> TRUE, hasData |-> FALSE, payloads |-> <<>>],
   [error |-> FALSE, hasData |-> FALSE, payloads |-> <<>>]}

AdapterRuns ==
  {[entry |-> "runStudyPlanning", completedSessions |-> h] :
       h \in {NoHistory, FiveSessions}}
  \cup {[entry |-> "runStudyPlanningFromDB", store |-> a] : a \in StoreAnswers}

\* loadCompletedStudySessions: if (error || !data) return []; else the payloads.
loadCompletedStudySessions(answer) ==
  IF answer.error \/ ~answer.hasData THEN <<>> ELSE answer.payloads

\* The completed sessions in the scope of the adapter function.
InScope(run) ==
  IF run.entry = "runStudyPlanning" THEN run.completedSessions
  ELSE loadCompletedStudySessions(run.store)

\* Mutant: the adapter hands its completed sessions on to the planner.
Forwarded_All(completedSessions) == completedSessions

\* The completed sessions that reach generateProposedWeeklyScheduleWithHistory
\* from the adapter: it calls generateProposedWeeklySchedule(tasks,
\* preferences, currentDay, pomodoroMinutes), which passes a fresh empty list.
Forwarded(completedSessions) == <<>>

InitAdapter ==
  /\ PlannerIdle
  /\ fn = "none"
  /\ args \in [tasks : SeqsUpTo(AdapterTaskPool, MaxTasks),
               preferences : AdapterPreferences,
               currentDay : {0},
               pomodoroMinutes : {25},
               runs : [1..AdapterCalls -> AdapterRuns]]
  /\ ret = <<>>

\* The call the adapter function makes: generateProposedWeeklySchedule with
\* the four planning arguments, entering generateProposedWeeklyScheduleWithHistory.
AdapterPlans(run) ==
  /\ call' = "generateProposedWeeklySchedule"
  /\ input' = [tasks |-> args.tasks,
               preferences |-> args.preferences,
               currentDay |-> args.currentDay,
               pomodoroMinutes |-> args.pomodoroMinutes,
               completedSessions |-> <<>>,
               dailyMetrics |-> <<>>,
               previousScheduledSessions |-> <<>>]
  /\ params' = [tasks |-> args.tasks,
                preferences |-> args.preferences,
                currentDay |-> args.currentDay,
                pomodoroMinutes |-> args.pomodoroMinutes,
                completedSessions |-> Forwarded(InScope(run)),
                dailyMetrics |-> <<>>]
  /\ pc' = "prepare"
  /\ UNCHANGED <<args, ret, locals>>

runStudyPlanning ==
  /\ fn = "none" /\ pc = "idle" /\ Len(ret) < AdapterCalls
  /\ args.runs[Len(ret) + 1].entry = "runStudyPlanning"
  /\ fn' = "runStudyPlanning"
  /\ AdapterPlans(args.runs[Len(ret) + 1])

\* The load has been awaited; its result is in scope when the plan is made.
runStudyPlanningFromDB ==
  /\ fn = "none" /\ pc = "idle" /\ Len(ret) < AdapterCalls
  /\ args.runs[Len(ret) + 1].entry = "runStudyPlanningFromDB"
  /\ fn' = "runStudyPlanningFromDB"
  /\ AdapterPlans(args.runs[Len(ret) + 1])

\* The adapter function returns the proposal of the planner; nothing of the
\* call is kept.
AdapterReturn ==
  /\ fn # "none" /\ pc = "done"
  /\ ret' = Append(ret, result)
  /\ fn' = "none"
  /\ call' = "none" /\ input' = <<>> /\ pc' = "idle" /\ params' = <<>>
  /\ sortedTasks' = <<>> /\ weekBlocks' = <<>> /\ totalAvailableMinutes' = 0
  /\ maxUsableMinutes' = Frac(0, 1) /\ usedMinutes' = 0 /\ sessionId' = 0
  /\ sessions' = <<>> /\ taskConsecutiveCounts' = <<>>
  /\ ti' = 0 /\ sessionsNeeded' = 0 /\ sessionsScheduled' = 0 /\ day' = 0 /\ bi' = 0
  /\ blockCursor' = 0 /\ consecutiveCount' = 0 /\ result' = "none"
  /\ placed' = <<>> /\ taskLog' = <<>>
  /\ UNCHANGED args

NextAdapter ==
  \/ runStudyPlanning
  \/ runStudyPlanningFromDB
  \/ Prepare
  \/ ForTask
  \/ ForDay
  \/ ForBlock
  \/ WhileStep
  \/ EndBlock
  \/ Return
  \/ AdapterReturn

SpecAdapter == InitAdapter /\ [][NextAdapter]_vars

(***************************************************************************)
(* Planning calls with one-minute pomodoros (a break of 0 minutes) and      *)
(* short days, run to completion: the engine is synchronous, a call that    *)
(* can take a step takes it.                                                *)
(***************************************************************************)
ShortTaskPool == {Task("a", 5, 5, NoDeadline), Task("c", 20, 1, <<2>>)}

ShortPreferences ==
  {Prefs(480, 486, 2, <<>>),
   Prefs(480, 600, 1, <<Slot(0, 530, 560, "unavailable")>>)}

InitTermination ==
  /\ HarnessIdle
  /\ \E c \in PlanCalls :
       /\ call = c.call
       /\ input \in [tasks : SeqsUpTo(ShortTaskPool, MaxTasks),
                     preferences : ShortPreferences,
                     currentDay : {0},
                     pomodoroMinutes : {1, 25},
                     completedSessions : {c.completedSessions},
                     dailyMetrics : {c.dailyMetrics},
                     previousScheduledSessions : {c.previousScheduledSessions}]
  /\ PlannerStart

NextTermination ==
  \/ generateProposedWeeklySchedule
  \/ generateProposedWeeklyScheduleWithHistory
  \/ generateRollingPlan
  \/ Prepare
  \/ ForTask
  \/ ForDay
  \/ ForBlock
  \/ WhileStep
  \/ EndBlock
  \/ Return

\* Weak fairness of the three steps that compute in doubles, with ENABLED
\* written out as the guard of the step: generateRollingPlan, Prepare, ForTask.
FairRollingPlan ==
  \/ []<>~(pc = "call" /\ call = "generateRollingPlan")
  \/ []<><<generateRollingPlan>>_vars

FairPrepare ==
  \/ []<>~(pc = "prepare")
  \/ []<><<Prepare>>_vars

FairForTask ==
  \/ []<>~(pc = "task" /\ ti < Len(sortedTasks))
  \/ []<><<ForTask>>_vars

SpecTermination ==
  /\ InitTermination /\ [][NextTermination]_vars
  /\ WF_vars(generateProposedWeeklySchedule)
  /\ WF_vars(generateProposedWeeklyScheduleWithHistory)
  /\ FairRollingPlan
  /\ FairPrepare
  /\ FairForTask
  /\ WF_vars(ForDay)
  /\ WF_vars(ForBlock)
  /\ WF_vars(WhileStep)
  /\ WF_vars(EndBlock)
  /\ WF_vars(Return)

(***************************************************************************)
(* The claims.                                                              *)
(***************************************************************************)
Prepared == pc \in {"task", "day", "block", "while", "endblock", "done"}

UniqueIds(tasks) ==
  \A i, j \in 1..Len(tasks) : tasks[i].id = tasks[j].id => i = j

\* C1: a planning call with pomodoroMinutes >= 1 emits sessions whose total
\* minutes (totalPlannedHours x 60) do not exceed the usable-minutes ceiling,
\* and its utilizationRate lies in [0, 1].
C1_NeverExceedsCeiling ==
  (pc = "done" /\ params.pomodoroMinutes >= 1)
  => /\ FracLE(FracMul(result.totalPlannedHours, Frac(60, 1)), maxUsableMinutes)
     /\ result.utilizationRate.den # 0
     /\ FracLE(result.utilizationRate, Frac(1, 1))

\* C2: with valid preferences (wake < sleep, valid slots anywhere in the day)
\* every emitted session lies between wake time and sleep time.
C2_SessionsBetweenWakeAndSleep ==
  (pc # "idle" /\ ValidPreferences(input.preferences))
  => \A i \in 1..Len(sessions) :
        /\ input.preferences.wakeTimeMinutes <= sessions[i].startMinutes
        /\ sessions[i].endMinutes <= input.preferences.sleepTimeMinutes

\* The start, from the start of a block, of the n-th session a task packs
\* into it: a break precedes every session that follows maxConsecutive ones.
NthStart(n, pomodoroMinutes, maxConsecutive) ==
  (n - 1) * pomodoroMinutes
    + ((n - 1) \div maxConsecutive) * BreakMinutes(pomodoroMinutes)

\* The number of sessions of one task a block of the given length holds.
BlockFit(length, pomodoroMinutes, maxConsecutive) ==
  Cardinality({n \in 1..(length \div pomodoroMinutes) :
     NthStart(n, pomodoroMinutes, maxConsecutive) + pomodoroMinutes <= length})

\* The number of sessions of one task the blocks of the week hold.
WeekFit ==
  LET all == Flatten(weekBlocks)
  IN SumSeq([i \in 1..Len(all) |->
       BlockFit(all[i].endMinutes - all[i].startMinutes, params.pomodoroMinutes,
                params.preferences.maxConsecutivePomodoros)])

\* C3 as claimed: a task with a unique id gets at most
\* ceil(estimatedHours x 60 / pomodoroMinutes) sessions, and exactly that many
\* whenever used minutes stayed below the ceiling while it was packed.
C3_AllSessionsUnlessCeiling ==
  (pc = "done" /\ UniqueIds(sortedTasks))
  => \A k \in 1..Len(taskLog) :
        LET emitted == Len(OfTask(result.sessions, taskLog[k].task.id))
            needed == CeilDiv(taskLog[k].task.estimatedMinutes, params.pomodoroMinutes)
        IN /\ emitted <= needed
           /\ BelowCeiling(taskLog[k].usedMinutes, maxUsableMinutes) => emitted = needed

\* C3 as amended: a task with a unique id gets at most
\* ceil(estimatedHours x 60 / pomodoroMinutes) sessions, and whenever used
\* minutes stayed below the ceiling while it was packed it gets the smaller of
\* that number and the number of pomodoros that fit, breaks included, into the
\* free blocks of the week.
C3_AllSessionsUnlessCeilingOrRoom ==
  (pc = "done" /\ UniqueIds(sortedTasks))
  => /\ Len(taskLog) = Len(sortedTasks)
     /\ \A k \in 1..Len(taskLog) :
        LET emitted == Len(OfTask(result.sessions, taskLog[k].task.id))
            needed == CeilDiv(taskLog[k].task.estimatedMinutes, params.pomodoroMinutes)
        IN /\ taskLog[k].task = sortedTasks[k]
           /\ emitted <= needed
           /\ BelowCeiling(taskLog[k].usedMinutes, maxUsableMinutes)
                => emitted = Min(needed, WeekFit)

\* A task ended below the ceiling with fewer sessions than it needs, and
\* another one with all of them.
C3_Witness ==
  /\ pc = "done" /\ UniqueIds(sortedTasks)
  /\ \E k \in 1..Len(taskLog) :
        /\ BelowCeiling(taskLog[k].usedMinutes, maxUsableMinutes)
        /\ 0 < taskLog[k].sessionsScheduled
        /\ taskLog[k].sessionsScheduled < taskLog[k].sessionsNeeded
  /\ \E k \in 1..Len(taskLog) :
        /\ BelowCeiling(taskLog[k].usedMinutes, maxUsableMinutes)
        /\ 0 < taskLog[k].sessionsScheduled
        /\ taskLog[k].sessionsScheduled = taskLog[k].sessionsNeeded

ScenarioInput ==
  /\ call = "generateProposedWeeklySchedule"
  /\ input.preferences = Prefs(480, 1320, 4, <<>>)
  /\ input.tasks = <<Task("a", 120, 5, NoDeadline)>>
  /\ input.pomodoroMinutes = 25

\* C4: wake 480, sleep 1320, no slots, one task of 2 hours (urgency 5, no
\* deadline), 25-minute pomodoros, at most 4 in a row, no history: exactly 5
\* sessions, all on day 0, four back to back from 480 numbered 0..3, a
\* 10-minute break, the fifth at 590-615 numbered 0.
C4_Scenario ==
  (pc = "done" /\ ScenarioInput)
  => result.sessions =
       <<Scheduled(0, "a", 0, 480, 505, 0), Scheduled(1, "a", 0, 505, 530, 1),
         Scheduled(2, "a", 0, 530, 555, 2), Scheduled(3, "a", 0, 555, 580, 3),
         Scheduled(4, "a", 0, 590, 615, 0)>>

C4_Witness == pc = "done" /\ ScenarioInput /\ Len(result.sessions) = 5

\* Session i is the first one its task places in its block.
FirstInBlock(i) ==
  \/ i = 1
  \/ placed[i - 1].task # placed[i].task
  \/ placed[i - 1].day # placed[i].day
  \/ placed[i - 1].block # placed[i].block

\* C5: the first session a task places in a block has sequenceNumber 0, a
\* session placed right behind another one has its sequenceNumber plus 1, the
\* first session after a break has sequenceNumber 0; every sequenceNumber is
\* below maxConsecutivePomodoros.
C5_SequenceNumbers ==
  pc # "idle"
  => /\ Len(placed) = Len(sessions)
     /\ \A i \in 1..Len(sessions) :
        /\ sessions[i].sequenceNumber < input.preferences.maxConsecutivePomodoros
        /\ sessions[i].sequenceNumber =
             IF FirstInBlock(i) \/ placed[i].afterBreak
             THEN 0
             ELSE sessions[i - 1].sequenceNumber + 1

\* A run of several sessions, a break, and a later block of the same task.
C5_Witness ==
  /\ \E i \in 1..Len(sessions) : sessions[i].sequenceNumber >= 2
  /\ \E i \in 1..Len(sessions) : placed[i].afterBreak
  /\ \E i \in 2..Len(sessions) :
        FirstInBlock(i) /\ placed[i - 1].task = placed[i].task

\* C6: the cold-start plan (no DailyMetrics, fatigueIndicator 0) has capacity
\* multiplier 1.0: its ceiling is totalAvailableMinutes x 0.75.
C6_ColdStartCeiling ==
  (Prepared /\ call = "generateProposedWeeklySchedule")
  => maxUsableMinutes = Frac(totalAvailableMinutes * 3, 4)

\* C7: with seven fatigued DailyMetrics (adjustmentFactor 0.7) the ceiling is
\* strictly lower than the one the cold-start plan computes for the same
\* preferences.
C7_FatiguedCeilingLower ==
  (Prepared /\ params.dailyMetrics = AllFatigued /\ totalAvailableMinutes > 0)
  => FracLT(maxUsableMinutes,
            applyAdjustmentFactorToCapacity(totalAvailableMinutes, <<>>, Frac(0, 1)))

\* Task a has its deadline on currentDay, task b later.
DueTodayAndLater(a, b, currentDay) ==
  /\ a.deadlineDayIndex # NoDeadline /\ b.deadlineDayIndex # NoDeadline
  /\ a.deadlineDayIndex[1] = currentDay
  /\ b.deadlineDayIndex[1] > currentDay

\* Task i of sortedTasks comes first, and every session of it is emitted
\* before every session of task j.
PackedBefore(i, j) ==
  /\ i < j
  /\ \A x, y \in 1..Len(sessions) :
        (sessions[x].taskId = sortedTasks[i].id /\ sessions[y].taskId = sortedTasks[j].id)
        => x < y

\* C8 as claimed: a task whose deadline is currentDay is sorted, and packed,
\* before every task with a later deadline whose urgency is at most 100 higher.
C8_DueTodayFirst ==
  (Prepared /\ UniqueIds(sortedTasks))
  => \A i, j \in 1..Len(sortedTasks) :
        (/\ DueTodayAndLater(sortedTasks[i], sortedTasks[j], params.currentDay)
         /\ sortedTasks[j].urgency - sortedTasks[i].urgency <= 100)
        => PackedBefore(i, j)

\* C8 as amended: a task A whose deadline is currentDay is sorted, and packed,
\* before every task B with a later deadline for which
\*   100 x (urgency(B) - urgency(A)) + 10 x (hours(B) - hours(A))
\*     + 500 / (deadline(B) - currentDay) < 10000.
\* (The inequality is multiplied by 6 x (deadline(B) - currentDay).)
C8_DueTodayFirstWithinBonus ==
  (Prepared /\ UniqueIds(sortedTasks))
  => \A i, j \in 1..Len(sortedTasks) :
        LET d == sortedTasks[j].deadlineDayIndex[1] - params.currentDay
        IN (/\ DueTodayAndLater(sortedTasks[i], sortedTasks[j], params.currentDay)
            /\ 600 * d * (sortedTasks[j].urgency - sortedTasks[i].urgency)
                 + d * (sortedTasks[j].estimatedMinutes - sortedTasks[i].estimatedMinutes)
                 + 3000 < 60000 * d)
           => PackedBefore(i, j)

\* A task due today was given after a more urgent task due later, is sorted
\* before it, and both got sessions.
C8_Witness ==
  /\ pc = "done"
  /\ Len(input.tasks) >= 2
  /\ DueTodayAndLater(input.tasks[2], input.tasks[1], input.currentDay)
  /\ input.tasks[1].urgency > input.tasks[2].urgency
  /\ sortedTasks[1] = input.tasks[2]
  /\ \E x, y \in 1..Len(sessions) :
        sessions[x].taskId = input.tasks[2].id /\ sessions[y].taskId = input.tasks[1].id

\* C9: when the usable-minutes ceiling is 0 the returned utilizationRate is
\* exactly 0, sessions is empty and totalPlannedHours is 0.
C9_ZeroCeilingZeroUtilization ==
  (pc = "done" /\ maxUsableMinutes = Frac(0, 1))
  => /\ result.utilizationRate = Frac(0, 1)
     /\ result.sessions = <<>>
     /\ result.totalPlannedHours = Frac(0, 1)

(***************************************************************************)
(* Calls of calculateAvailableBlocks with valid slots that overlap, nest,   *)
(* touch, and reach beyond the waking day.                                  *)
(***************************************************************************)
MergeTimes == {470, 490, 500, 510, 530, 550}
MergeWindows == {<<480, 540>>, <<520, 480>>}
MergeMinSessions == {1, 10}
MergeSlotPool ==
  {[dayOfWeek |-> 0, startMinutes |-> se[1], endMinutes |-> se[2], type |-> t] :
       se \in {x \in MergeTimes \X MergeTimes : x[1] < x[2]},
       t \in {"unavailable", "not_preferred"}}
  \cup {[dayOfWeek |-> 1, startMinutes |-> 480, endMinutes |-> 540, type |-> "unavailable"]}

InitMerge ==
  /\ PlannerIdle
  /\ fn = "calculateAvailableBlocks"
  /\ args \in [dayOfWeek : {0},
               preferences : [wakeTimeMinutes : {w[1] : w \in MergeWindows},
                              sleepTimeMinutes : {w[2] : w \in MergeWindows},
                              maxConsecutivePomodoros : {4},
                              unavailableSlots : SeqsUpTo(MergeSlotPool, MaxSlots)],
               minSessionMinutes : MergeMinSessions]
  /\ <<args.preferences.wakeTimeMinutes, args.preferences.sleepTimeMinutes>> \in MergeWindows
  /\ ret = "pending"

NextMerge == CallAvailableBlocks

SpecMerge == InitMerge /\ [][NextMerge]_vars

\* C10: for valid preferences and a minimum session length >= 1, every block
\* calculateAvailableBlocks returns has startMinutes < endMinutes and is at
\* least the minimum session length long.
C10_BlocksWellFormed ==
  (fn = "calculateAvailableBlocks" /\ ret # "pending"
     /\ ValidPreferences(args.preferences) /\ args.minSessionMinutes >= 1)
  => \A i \in 1..Len(ret) :
        /\ ret[i].startMinutes < ret[i].endMinutes
        /\ ret[i].endMinutes - ret[i].startMinutes >= args.minSessionMinutes

\* Two blocks around a slot, the first one exactly the minimum long.
C10_Witness ==
  /\ fn = "calculateAvailableBlocks" /\ ret # "pending"
  /\ ValidPreferences(args.preferences)
  /\ Len(args.preferences.unavailableSlots) > 0
  /\ Len(ret) = 2
  /\ ret[1].endMinutes - ret[1].startMinutes = args.minSessionMinutes

\* The sequence s without its i-th element.
RemoveAt(s, i) == SubSeq(s, 1, i - 1) \o SubSeq(s, i + 1, Len(s))

\* A slot that is empty, reversed or not within [0, 1440).
InvalidSlot(s) ==
  s.startMinutes >= s.endMinutes \/ s.startMinutes < 0 \/ s.endMinutes >= 1440

\* C11: an unavailable slot with startMinutes >= endMinutes, or outside
\* [0, 1440), carves nothing out: calculateAvailableBlocks returns the same
\* blocks with the slot as without it.
C11_InvalidSlotIgnored ==
  (fn = "calculateAvailableBlocks" /\ ret # "pending")
  => \A i \in 1..Len(args.preferences.unavailableSlots) :
        InvalidSlot(args.preferences.unavailableSlots[i])
        => ret = calculateAvailableBlocks(args.dayOfWeek,
                   [args.preferences EXCEPT
                      !.unavailableSlots = RemoveAt(args.preferences.unavailableSlots, i)],
                   args.minSessionMinutes)

\* C12: with wakeTimeMinutes >= sleepTimeMinutes calculateAvailableBlocks
\* returns no block, whatever the unavailable slots of the day (stated here
\* for days whose slots are all valid, which is where it already fails).
C12_NoBlockWhenWakeNotBeforeSleep ==
  (fn = "calculateAvailableBlocks" /\ ret # "pending"
     /\ args.preferences.wakeTimeMinutes >= args.preferences.sleepTimeMinutes
     /\ \A i \in 1..Len(args.preferences.unavailableSlots) :
           ValidSlot(args.preferences.unavailableSlots[i]))
  => ret = <<>>

\* Positions i - 1 and i both have samples and the average focus at i is at
\* least 25% lower than the one at i - 1.
FocusDropsAt(completedSessions, i) ==
  /\ Len(RatingsAtSequence(completedSessions, i)) > 0
  /\ Len(RatingsAtSequence(completedSessions, i - 1)) > 0
  /\ FracLE(AvgBySequence(completedSessions, i),
            FracMul(AvgBySequence(completedSessions, i - 1), Frac(3, 4)))

\* C13: analyzeConsecutiveSessionsPattern returns the smallest position i in
\* 1..currentMax-1 at which the average focus is at least 25% lower than at
\* i - 1 (both positions having samples), clamped to [1, currentMax], and
\* currentMax when there is none; for the history [0:5, 0:4.8, 1:5, 1:4.9,
\* 2:3.0] x 10 and currentMax >= 3 it returns 2 at confidence 0.8.
C13_SmallestFocusDrop ==
  (fn = "analyzeConsecutiveSessionsPattern" /\ ret # Pending)
  => LET drops == {i \in 1..(args.currentMax - 1) :
                     FocusDropsAt(args.completedSessions, i)}
         first == CHOOSE i \in drops : \A j \in drops : i <= j
     IN /\ ret.value = IF drops = {} THEN args.currentMax
                       ELSE Max(1, Min(first, args.currentMax))
        /\ (args.completedSessions = ScenarioHistory /\ args.currentMax >= 3)
             => (ret.value = 2 /\ ret.confidence = Frac(4, 5))

\* The minutes logged for a task id in the completed sessions.
LoggedMinutes(id) == SumSeq(Durations(OfTask(input.completedSessions, id)))

\* C14: generateRollingPlan plans each remaining task (unique ids) with the
\* estimate max(0, estimatedHours - hours logged for its id): a task whose
\* logged hours reach or exceed its estimate gets no session, any other task
\* at most ceil((estimatedHours - loggedHours) x 60 / pomodoroMinutes); the
\* input is left unchanged.
C14_RollingEstimates ==
  /\ [](/\ pc = "done"
        /\ call = "generateRollingPlan"
        /\ UniqueIds(input.tasks)
        => \A i \in 1..Len(input.tasks) :
             LET task == input.tasks[i]
                 emitted == Len(OfTask(result.sessions, task.id))
             IN IF LoggedMinutes(task.id) >= task.estimatedMinutes
                THEN emitted = 0
                ELSE emitted <= CeilDiv(task.estimatedMinutes - LoggedMinutes(task.id),
                                        params.pomodoroMinutes))
  /\ [][input' = input]_vars

\* C15: calculateDailyMetricsForRolling returns the same DailyMetrics as
\* calculateDailyMetrics on the same arguments, except on a day with zero
\* planned and nonzero actual minutes, where its adherenceScore is 1.0; on a
\* day with zero planned and zero actual minutes both have adherenceScore 0
\* and focusScore 0.
C15_RollingDailyMetricsAgree ==
  (fn = "calculateDailyMetrics" /\ ret.rolling # Pending /\ ret.plain # Pending)
  => LET planned == SumSeq(Lengths(OnDay(args.scheduledSessions, args.dayOfWeek)))
         actual == SumSeq(Durations(OnDay(args.completedSessions, args.dayOfWeek)))
     IN /\ (planned = 0 /\ actual > 0) => ret.rolling.adherenceScore = Frac(1, 1)
        /\ ~(planned = 0 /\ actual > 0) => ret.rolling = ret.plain
        /\ (planned = 0 /\ actual = 0)
             => /\ ret.rolling.adherenceScore = Frac(0, 1)
                /\ ret.rolling.focusScore = Frac(0, 1)
                /\ ret.plain.adherenceScore = Frac(0, 1)
                /\ ret.plain.focusScore = Frac(0, 1)

\* The mean focus of the sessions of a time-of-day bucket that has samples.
MeanFocus(completedSessions, t) ==
  Frac(SumSeq(Ratings(AtTime(completedSessions, t))), Len(AtTime(completedSessions, t)))

\* The first bucket, in the order dawn, morning, evening, night, whose mean
\* focus is the maximum (sign = 1) or the minimum (sign = -1) among the
\* buckets with samples.
FirstExtremeBucket(completedSessions, sign) ==
  LET sampled == {i \in 1..Len(TimesOfDay) :
                    Len(AtTime(completedSessions, TimesOfDay[i])) > 0}
      mean(i) == MeanFocus(completedSessions, TimesOfDay[i])
      beats(i, j) == IF sign = 1 THEN FracLT(mean(j), mean(i)) ELSE FracLT(mean(i), mean(j))
      first == CHOOSE i \in sampled :
                 \A j \in sampled : IF j < i THEN beats(i, j) ELSE ~beats(j, i)
  IN TimesOfDay[first]

\* C16: for a non-empty history (focus ratings in 0..5) calculateWeeklyMetrics
\* returns as bestFocusTime the first bucket whose mean focus is the maximum
\* among the buckets with samples and as worstFocusTime the first one with the
\* minimum mean; both are null only when there is no completed session.
C16_BestAndWorstFocusTime ==
  (fn = "calculateWeeklyMetrics" /\ ret # Pending)
  => IF Len(args.completedSessions) > 0
     THEN /\ ret.bestFocusTime = FirstExtremeBucket(args.completedSessions, 1)
          /\ ret.worstFocusTime = FirstExtremeBucket(args.completedSessions, -1)
     ELSE ret.bestFocusTime = "null" /\ ret.worstFocusTime = "null"

\* C17: with valid preferences and two or more tasks with unique ids, no two
\* sessions of a proposal on the same dayOfWeek overlap in time.
C17_NoOverlap ==
  (pc = "done" /\ ValidPreferences(input.preferences)
     /\ Len(input.tasks) >= 2 /\ UniqueIds(input.tasks))
  => \A i, j \in 1..Len(result.sessions) :
        (i # j /\ result.sessions[i].dayOfWeek = result.sessions[j].dayOfWeek)
        => \/ result.sessions[i].endMinutes <= result.sessions[j].startMinutes
           \/ result.sessions[j].endMinutes <= result.sessions[i].startMinutes

\* C18: every emitted session lies in the free block it was placed in: the
\* block is one of the day's blocks, block.startMinutes <= startMinutes,
\* endMinutes <= block.endMinutes and endMinutes - startMinutes =
\* pomodoroMinutes; this includes a session placed right after a break.
C18_SessionWithinBlock ==
  pc # "idle"
  => /\ Len(placed) = Len(sessions)
     /\ \A i \in 1..Len(sessions) :
          LET blocks == weekBlocks[placed[i].day + 1]
          IN /\ sessions[i].dayOfWeek = placed[i].day
             /\ placed[i].block \in 1..Len(blocks)
             /\ blocks[placed[i].block].startMinutes = placed[i].blockStart
             /\ blocks[placed[i].block].endMinutes = placed[i].blockEnd
             /\ placed[i].blockStart <= sessions[i].startMinutes
             /\ sessions[i].endMinutes <= placed[i].blockEnd
             /\ sessions[i].endMinutes - sessions[i].startMinutes
                  = input.pomodoroMinutes

\* A session placed after a break, and a block left because the next break
\* took the room of the next pomodoro.
C18_Witness ==
  /\ \E i \in 1..Len(sessions) :
        placed[i].afterBreak /\ sessions[i].startMinutes > placed[i].blockStart
  /\ pc = "endblock" /\ sessions # <<>>
  /\ blockCursor > sessions[Len(sessions)].endMinutes
  /\ blockCursor + input.pomodoroMinutes > weekBlocks[day + 1][bi].endMinutes

\* The number of sessions of the back-to-back run that ends with session i:
\* sessions of one task in one block, each starting when the one before ends.
RECURSIVE RunLength(_)
RunLength(i) ==
  IF ~FirstInBlock(i) /\ sessions[i].startMinutes = sessions[i - 1].endMinutes
  THEN RunLength(i - 1) + 1
  ELSE 1

C20_PriorityOrderAndCeilingStop ==
  Prepared
  => /\ Len(sortedTasks) = Len(params.tasks)
     /\ \A t \in 1..Len(params.tasks) :
          \E i \in 1..Len(sortedTasks) : sortedTasks[i] = params.tasks[t]
     /\ \A i, j \in 1..Len(sortedTasks) :
          i < j =>
            LET pi == calculateTaskPriority(sortedTasks[i], params.currentDay)
                pj == calculateTaskPriority(sortedTasks[j], params.currentDay)
            IN \/ FracLT(pj, pi)
               \/ pi = pj /\ sortedTasks[i].id < sortedTasks[j].id
     /\ Len(placed) = Len(sessions)
     /\ \A i \in 1..Len(sessions) :
          /\ sessions[i].id = i - 1
          /\ sessions[i].taskId = sortedTasks[placed[i].task].id
          /\ i > 1 => placed[i - 1].task <= placed[i].task
          /\ BelowCeiling(placed[i].usedBefore, maxUsableMinutes)
     /\ \A k \in 1..Len(taskLog) :
          (/\ taskLog[k].sessionsScheduled < taskLog[k].sessionsNeeded
           /\ ~BelowCeiling(taskLog[k].usedMinutes, maxUsableMinutes))
          => \A l \in (k + 1)..Len(taskLog) : taskLog[l].sessionsScheduled = 0
     /\ pc = "done" => result.sessions = sessions

\* Two tasks of equal score, given in this order: the first is cut short by
\* the ceiling and the second gets no session.
C20_Witness ==
  /\ pc = "done" /\ Len(taskLog) = 2 /\ Len(sessions) > 0
  /\ calculateTaskPriority(sortedTasks[1], params.currentDay)
       = calculateTaskPriority(sortedTasks[2], params.currentDay)
  /\ taskLog[1].sessionsScheduled < taskLog[1].sessionsNeeded
  /\ ~BelowCeiling(taskLog[1].usedMinutes, maxUsableMinutes)
  /\ taskLog[2].sessionsScheduled = 0

\* The slots of the day the blocks were computed for.
DaySlots ==
  SelectSeq(args.preferences.unavailableSlots, LAMBDA s : s.dayOfWeek = args.dayOfWeek)

\* The half-open intervals of a block and a slot have a minute in common.
Intersects(block, slot) ==
  block.startMinutes < slot.endMinutes /\ slot.startMinutes < block.endMinutes

\* C21: when every slot has startMinutes < endMinutes, overlapping and nested
\* ones included, the blocks calculateAvailableBlocks returns for a day are in
\* chronological order, pairwise disjoint, and none of them intersects a slot
\* of that day, of either type.
C21_BlocksAvoidSlots ==
  (/\ fn = "calculateAvailableBlocks" /\ ret # "pending"
   /\ \A k \in 1..Len(args.preferences.unavailableSlots) :
         args.preferences.unavailableSlots[k].startMinutes
           < args.preferences.unavailableSlots[k].endMinutes)
  => /\ \A i, j \in 1..Len(ret) :
          i < j => /\ ret[i].startMinutes < ret[j].startMinutes
                   /\ ret[i].endMinutes <= ret[j].startMinutes
     /\ \A i \in 1..Len(ret) : \A k \in 1..Len(DaySlots) :
          ~Intersects(ret[i], DaySlots[k])

\* A slot nested in an earlier, longer one of the other type, with a block
\* before the outer slot and a block after it.
C21_Witness ==
  /\ fn = "calculateAvailableBlocks" /\ ret # "pending"
  /\ Len(DaySlots) = 2 /\ Len(ret) = 2
  /\ DaySlots[1].type # DaySlots[2].type
  /\ DaySlots[1].startMinutes < DaySlots[2].startMinutes
  /\ DaySlots[2].endMinutes < DaySlots[1].endMinutes
  /\ ret[1].endMinutes = DaySlots[1].startMinutes
  /\ ret[2].startMinutes = DaySlots[1].endMinutes

\* The history shows no degradation: on every day the completed minutes equal
\* the minutes the previous cycle planned, and every focus rating is 5.
NoDegradation ==
  /\ \A d \in 0..(DaysPerWeek - 1) :
        SumSeq(Durations(OnDay(input.completedSessions, d)))
          = SumSeq(Lengths(OnDay(input.previousScheduledSessions, d)))
  /\ \A i \in 1..Len(input.completedSessions) :
        input.completedSessions[i].focusRating = 50

\* C22: in generateRollingPlan a history without degradation does not shrink
\* the budget: the ceiling is 0.75 x the total available minutes.
C22_NoDegradationFullBudget ==
  (call = "generateRollingPlan" /\ Prepared /\ NoDegradation)
  => 4 * maxUsableMinutes.num = 3 * totalAvailableMinutes * maxUsableMinutes.den

\* C23: the plan of the adapter does not depend on history: calls of
\* runStudyPlanning and runStudyPlanningFromDB with the same tasks,
\* preferences, currentDay and pomodoroMinutes return the same proposal,
\* whatever completed sessions are passed in or loaded, also when the load
\* fails.
C23_AdapterIgnoresHistory ==
  fn # "none" \/ \A i, j \in 1..Len(ret) : ret[i] = ret[j]

\* Both entry points were called, one with a history that would move the
\* plan into another block had it reached the planner, and sessions were
\* planned.
C23_Witness ==
  /\ fn = "none" /\ Len(ret) = AdapterCalls
  /\ args.runs[1].entry # args.runs[2].entry
  /\ \E i \in 1..AdapterCalls : Len(InScope(args.runs[i])) >= 5
  /\ \E i \in 1..AdapterCalls : InScope(args.runs[i]) = <<>>
  /\ Len(args.preferences.unavailableSlots) > 0
  /\ Len(ret[1].sessions) > 0

\* C24: a planning call with pomodoroMinutes >= 1, maxConsecutivePomodoros
\* >= 1 and finite estimates terminates, and every iteration of the packing
\* loop either places a session, moving the block cursor on by at least
\* pomodoroMinutes and the used minutes by pomodoroMinutes, or leaves the
\* block; this includes breaks of 0 minutes (pomodoroMinutes = 1).
C24_Terminates ==
  /\ <>(pc = "done")
  /\ [][pc = "while"
        => \/ /\ pc' = "while"
              /\ Len(sessions') = Len(sessions) + 1
              /\ blockCursor' >= blockCursor + input.pomodoroMinutes
              /\ usedMinutes' = usedMinutes + input.pomodoroMinutes
              /\ sessionsScheduled' = sessionsScheduled + 1
           \/ pc' = "endblock"]_vars

\* A finished call with one-minute pomodoros in which a session follows a
\* break of 0 minutes.
C24_Witness ==
  /\ pc = "done" /\ input.pomodoroMinutes = 1
  /\ \E i \in 2..Len(sessions) :
        /\ placed[i].afterBreak
        /\ sessions[i].startMinutes = sessions[i - 1].endMinutes
        /\ sessions[i].taskId = sessions[i - 1].taskId

=============================================================================
